---- MODULE Spec2Model ----
(***************************************************************************)
(* Model of the voxel chunk storage of voxl (src/src/vox/chunk.rs):        *)
(* Chunk<D, T, N> with its Default, Index, IndexMut and new_accessor       *)
(* implementations, the Accessor constants, and the LoadStrat enum with    *)
(* the chunk-coordinate enumeration described for it.                      *)
(*                                                                         *)
(* A chunk type Chunk<D, T, N> is modelled by `side` (D::SIDE_LEN) and `n` *)
(* (the const generic N); T is u32, as in the crate's test.  An array      *)
(* [T; N] is a function on 0..N-1.  A panic ends the run: no action is     *)
(* enabled once pc = "panicked".                                           *)
(***************************************************************************)
EXTENDS Integers, Sequences, FiniteSets, TLC

VARIABLES pc, side, n, data, last, ops, strat, center, members

vars == <<pc, side, n, data, last, ops, strat, center, members>>
chunkVars == <<pc, side, n, data, last, ops>>
loadVars == <<strat, center, members>>

(* ------------------------------ bounds --------------------------------- *)

\* largest SIDE_LEN of an Accessor; offsets passed to index range over 0..MaxSide
MaxSide == 2
\* number of new_accessor, index and index_mut calls in one run
MaxOps == 2
\* largest RuggedSphere radius
MaxRadius == 2
\* largest Cube half-width; side = 2 * half + 1
MaxHalf == 1
\* chunk-coordinate components of the center range over -MaxCenter..MaxCenter
MaxCenter == 1

Sides == 1..MaxSide
Offsets == 0..MaxSide

(* ----------------------------- Accessor -------------------------------- *)

QUAD_LEN(s) == s * s

CUBE_LEN(s) == QUAD_LEN(s) * s

\* array lengths N: the volume of some accessor, not necessarily the chunk's own
Lens == {CUBE_LEN(s) : s \in Sides}

(* ------------------------------- Unit ---------------------------------- *)

\* <u32 as Default>::default()
TDefault == 0

\* the value the crate's test stores
TEST_VALUE == 100

\* element values: the default and a value that differs from it
Values == {TDefault, TEST_VALUE}

(* ------------------------------- Chunk --------------------------------- *)

\* the record of the operation that ran last; prev is the accessor before it
Op(name, y, x, z, v, d) ==
    [op |-> name, coord |-> <<y, x, z>>, val |-> v, prev |-> d]

\* y * D::QUAD_LEN + x + z * D::SIDE_LEN
FlatBad(s, y, x, z) == y * QUAD_LEN(s) + x + z
Flat(s, y, x, z) == y * QUAD_LEN(s) + x + z * s

\* the slice bounds check of self.data[i]
InBoundsBad(i, len) == i < len - 1
InBounds(i, len) == i < len

\* a variable of type Chunk<D, T, N>, not yet constructed
Init ==
    /\ pc = "start"
    /\ side \in Sides
    /\ n \in Lens
    /\ data = << >>
    /\ last = Op("none", 0, 0, 0, TDefault, side)
    /\ ops = 0
    /\ strat = [kind |-> "Cube", size |-> 1]
    /\ center = <<0, 0, 0>>
    /\ members = << >>

\* Chunk::default()
DefaultBad ==
    /\ pc = "start"
    /\ pc' = "live"
    /\ data' = [i \in 0..(n - 1) |-> IF i = n - 1 THEN TEST_VALUE ELSE TDefault]
    /\ last' = Op("default", 0, 0, 0, TDefault, side)
    /\ UNCHANGED <<side, n, ops>>
    /\ UNCHANGED loadVars
Default ==
    /\ pc = "start"
    /\ pc' = "live"
    /\ data' = [i \in 0..(n - 1) |-> TDefault]
    /\ last' = Op("default", 0, 0, 0, TDefault, side)
    /\ UNCHANGED <<side, n, ops>>
    /\ UNCHANGED loadVars

\* chunk.new_accessor::<A>()
NewAccessorBad(a) ==
    /\ pc = "live"
    /\ ops < MaxOps
    /\ ops' = ops + 1
    /\ side' = a
    /\ data' = [i \in 0..(n - 1) |-> TDefault]
    /\ last' = Op("new_accessor", 0, 0, 0, TDefault, side)
    /\ UNCHANGED <<pc, n>>
    /\ UNCHANGED loadVars
NewAccessor(a) ==
    /\ pc = "live"
    /\ ops < MaxOps
    /\ ops' = ops + 1
    /\ side' = a
    /\ data' = data
    /\ last' = Op("new_accessor", 0, 0, 0, TDefault, side)
    /\ UNCHANGED <<pc, n>>
    /\ UNCHANGED loadVars

\* chunk[[y, x, z]]
IndexBad(y, x, z) ==
    /\ pc = "live"
    /\ ops < MaxOps
    /\ ops' = ops + 1
    /\ IF InBounds(Flat(side, y, x, z), n)
          THEN /\ last' = Op("index", y, x, z, data[Flat(side, z, x, y) % n], side)
               /\ pc' = "live"
          ELSE /\ last' = Op("index", y, x, z, TDefault, side)
               /\ pc' = "panicked"
    /\ UNCHANGED <<side, n, data>>
    /\ UNCHANGED loadVars
Index(y, x, z) ==
    /\ pc = "live"
    /\ ops < MaxOps
    /\ ops' = ops + 1
    /\ IF InBounds(Flat(side, y, x, z), n)
          THEN /\ last' = Op("index", y, x, z, data[Flat(side, y, x, z)], side)
               /\ pc' = "live"
          ELSE /\ last' = Op("index", y, x, z, TDefault, side)
               /\ pc' = "panicked"
    /\ UNCHANGED <<side, n, data>>
    /\ UNCHANGED loadVars

\* chunk[[y, x, z]] = v
IndexMutBad(y, x, z, v) ==
    /\ pc = "live"
    /\ ops < MaxOps
    /\ ops' = ops + 1
    /\ last' = Op("index_mut", y, x, z, v, side)
    /\ IF InBounds(Flat(side, y, x, z), n)
          THEN /\ data' = [i \in 0..(n - 1) |->
                              IF i = Flat(side, y, x, z) THEN v ELSE TDefault]
               /\ pc' = "live"
          ELSE /\ pc' = "panicked"
               /\ data' = data
    /\ UNCHANGED <<side, n>>
    /\ UNCHANGED loadVars
IndexMut(y, x, z, v) ==
    /\ pc = "live"
    /\ ops < MaxOps
    /\ ops' = ops + 1
    /\ last' = Op("index_mut", y, x, z, v, side)
    /\ IF InBounds(Flat(side, y, x, z), n)
          THEN /\ data' = [data EXCEPT ![Flat(side, y, x, z)] = v]
               /\ pc' = "live"
          ELSE /\ pc' = "panicked"
               /\ data' = data
    /\ UNCHANGED <<side, n>>
    /\ UNCHANGED loadVars

DefaultStep == Default

NewAccessorStep == \E a \in Sides : NewAccessor(a)

IndexStep == \E y \in Offsets, x \in Offsets, z \in Offsets : Index(y, x, z)

IndexMutStep ==
    \E y \in Offsets, x \in Offsets, z \in Offsets, v \in Values : IndexMut(y, x, z, v)

Next ==
    \/ DefaultStep
    \/ NewAccessorStep
    \/ IndexStep
    \/ IndexMutStep

Spec == Init /\ [][Next]_vars

(* ----------------------------- LoadStrat ------------------------------- *)

\* the enum LoadStrat: RuggedSphere { radius } and Cube { side }
LoadStrats ==
    [kind : {"RuggedSphere"}, size : 0..MaxRadius]
        \cup [kind : {"Cube"}, size : {2 * h + 1 : h \in 0..MaxHalf}]

\* chunk coordinates of the viewer
Centers ==
    {<<cy, cx, cz>> : cy \in (-MaxCenter)..MaxCenter,
                      cx \in (-MaxCenter)..MaxCenter,
                      cz \in (-MaxCenter)..MaxCenter}

\* squared length of an offset (dy, dx, dz)
Norm2(d) == d[1] * d[1] + d[2] * d[2] + d[3] * d[3]

\* the offsets of the box of half-width h, ascending by (dy, dx, dz)
BoxOffsets(h) ==
    LET w == 2 * h + 1
    IN  [i \in 1..(w * w * w) |->
            <<((i - 1) \div (w * w)) - h, (((i - 1) \div w) % w) - h, ((i - 1) % w) - h>>]

\* the offsets at squared distance d2, ascending by (dy, dx, dz)
Shell(h, d2) ==
    LET AtDistance(d) == Norm2(d) = d2
    IN  SelectSeq(BoxOffsets(h), AtDistance)

\* the offsets within radius r, by ascending distance, from squared distance d2 on
RECURSIVE SphereOffsetsBad(_, _)
SphereOffsetsBad(r, d2) ==
    IF d2 >= r * r THEN << >> ELSE Shell(r, d2) \o SphereOffsetsBad(r, d2 + 1)
RECURSIVE SphereOffsets(_, _)
SphereOffsets(r, d2) ==
    IF d2 > r * r THEN << >> ELSE Shell(r, d2) \o SphereOffsets(r, d2 + 1)

Translate(c, offs) ==
    [i \in 1..Len(offs) |-> <<c[1] + offs[i][1], c[2] + offs[i][2], c[3] + offs[i][3]>>]

\* members(strategy, center)
Members(s, c) ==
    IF s.kind = "RuggedSphere"
        THEN Translate(c, SphereOffsets(s.size, 0))
        ELSE Translate(c, BoxOffsets((s.size - 1) \div 2))

\* a streaming configuration and a viewer position; no chunk is built
InitLoad ==
    /\ pc = "start"
    /\ side = 1
    /\ n = 1
    /\ data = << >>
    /\ last = Op("none", 0, 0, 0, TDefault, side)
    /\ ops = 0
    /\ strat \in LoadStrats
    /\ center \in Centers
    /\ members = << >>

\* the streaming manager asks for the resident set
MembersStep ==
    /\ members' = Members(strat, center)
    /\ UNCHANGED <<strat, center>>
    /\ UNCHANGED chunkVars

NextLoad == MembersStep

SpecLoad == InitLoad /\ [][NextLoad]_vars

(* ------------------------------ properties ----------------------------- *)

\* a coordinate every component of which is < s
Valid(c, s) == \A k \in 1..3 : c[k] < s

\* C1: on a chunk with N = CUBE_LEN, writing v at a coordinate with every
\* component < SIDE_LEN succeeds, and reading the same coordinate next
\* succeeds and returns v.
RoundTrip ==
    [][ /\ ( /\ last'.op = "index_mut"
             /\ n' = side' * side' * side'
             /\ Valid(last'.coord, side') )
           => pc' = "live"
        /\ ( /\ last.op = "index_mut"
             /\ pc = "live"
             /\ n = side * side * side
             /\ Valid(last.coord, side)
             /\ last'.op = "index"
             /\ last'.coord = last.coord )
           => (pc' = "live" /\ last'.val = last.val) ]_vars

\* the test's case, scaled: the far corner written and read back
RoundTripWitness ==
    /\ last.op = "index"
    /\ pc = "live"
    /\ ops = 2
    /\ side >= 2
    /\ n = side * side * side
    /\ last.coord = <<side - 1, side - 1, side - 1>>
    /\ last.val = TEST_VALUE

\* C2: for SIDE_LEN = L the addressing function is one-to-one on the L^3
\* coordinates with every component in 0..L-1, and its values on them are
\* exactly 0..L^3-1.
FlatBijective ==
    LET L == side
        T == {<<y, x, z>> : y \in 0..(L - 1), x \in 0..(L - 1), z \in 0..(L - 1)}
    IN  /\ \A a \in T, b \in T :
               a # b => Flat(L, a[1], a[2], a[3]) # Flat(L, b[1], b[2], b[3])
        /\ {Flat(L, t[1], t[2], t[3]) : t \in T} = 0..(L * L * L - 1)

\* the last flat index of a cube of side >= 2 was addressed and written
FlatBijectiveWitness ==
    /\ side >= 2
    /\ n = side * side * side
    /\ pc = "live"
    /\ last.op = "index_mut"
    /\ last.coord = <<side - 1, side - 1, side - 1>>
    /\ last.val = TEST_VALUE
    /\ data[n - 1] = TEST_VALUE

\* C3: on a chunk with N = CUBE_LEN, index or index_mut with a component
\* >= SIDE_LEN panics.
OutOfRangePanics ==
    ( /\ last.op \in {"index", "index_mut"}
      /\ n = side * side * side
      /\ ~Valid(last.coord, side) )
    => pc = "panicked"

\* C4: a successful write at a coordinate with every component < SIDE_LEN
\* sets the slot y*QUAD_LEN + x + z*SIDE_LEN and changes no other slot, so no
\* other such coordinate reads differently afterwards.
WriteFrame ==
    [][ ( /\ last'.op = "index_mut"
          /\ pc' = "live"
          /\ Valid(last'.coord, side) )
        => LET y == last'.coord[1]
               x == last'.coord[2]
               z == last'.coord[3]
               f == y * side * side + x + z * side
               cs == {<<cy, cx, cz>> : cy \in 0..(side - 1), cx \in 0..(side - 1),
                                       cz \in 0..(side - 1)}
           IN  /\ DOMAIN data' = DOMAIN data
               /\ data'[f] = last'.val
               /\ \A i \in 0..(n - 1) : i # f => data'[i] = data[i]
               /\ \A c \in cs :
                      LET g == c[1] * side * side + c[2] + c[3] * side
                      IN  (c # last'.coord /\ g < n) => data'[g] = data[g] ]_vars

\* the worked example: side 2, a write at (1, 1, 1) of a default chunk
WriteFrameWitness ==
    /\ side = 2
    /\ n = 8
    /\ pc = "live"
    /\ ops = 1
    /\ last.op = "index_mut"
    /\ last.coord = <<1, 1, 1>>
    /\ last.val = TEST_VALUE
    /\ data[7] = TEST_VALUE
    /\ \A i \in 0..6 : data[i] = TDefault

\* C5: new_accessor leaves the array as it was: same length, the same
\* element at every flat index.
AccessorKeepsData ==
    [][ last'.op = "new_accessor"
        => (pc' = "live" /\ n' = n /\ DOMAIN data' = 0..(n - 1) /\ data' = data) ]_vars

\* a written chunk relabelled with an accessor of another side
AccessorKeepsDataWitness ==
    /\ last.op = "new_accessor"
    /\ pc = "live"
    /\ last.prev # side
    /\ \E i \in 0..(n - 1) : data[i] = TEST_VALUE

\* C6: a chunk that Chunk::default() built has N = CUBE_LEN.
LayoutChecked ==
    (last.op = "default" /\ pc = "live") => n = side * side * side

\* C7: new_accessor::<A> on a chunk with N = D::CUBE_LEN yields a chunk only
\* when A::CUBE_LEN = D::CUBE_LEN.
ReinterpretationChecked ==
    ( /\ last.op = "new_accessor"
      /\ pc = "live"
      /\ n = last.prev * last.prev * last.prev )
    => side * side * side = last.prev * last.prev * last.prev

\* C8: Chunk::default() fills all N slots with T::default(), and a read that
\* is the first operation on the chunk returns T::default().
DefaultFill ==
    /\ last.op = "default"
           => (DOMAIN data = 0..(n - 1) /\ \A i \in 0..(n - 1) : data[i] = TDefault)
    /\ (last.op = "index" /\ pc = "live" /\ ops = 1) => last.val = TDefault

\* a fresh chunk of more than one slot read away from the origin
DefaultFillWitness ==
    /\ last.op = "index"
    /\ pc = "live"
    /\ ops = 1
    /\ n > 1
    /\ last.coord # <<0, 0, 0>>
    /\ last.val = TDefault

\* C9: the members of a sphere are exactly the coordinates at Euclidean
\* distance <= radius from the center (squared distance <= radius^2); radius
\* 0 gives the center alone, radius 1 the center and its six axis neighbours.
SphereMembersExact ==
    (strat.kind = "RuggedSphere" /\ members # << >>)
    => LET r == strat.size
           got == {members[i] : i \in 1..Len(members)}
           Diff(c) == <<c[1] - center[1], c[2] - center[2], c[3] - center[3]>>
           reach == MaxCenter + MaxRadius + 1
           Window == {<<cy, cx, cz>> : cy \in (-reach)..reach, cx \in (-reach)..reach,
                                       cz \in (-reach)..reach}
           Near == {<<center[1] + 1, center[2], center[3]>>,
                    <<center[1] - 1, center[2], center[3]>>,
                    <<center[1], center[2] + 1, center[3]>>,
                    <<center[1], center[2] - 1, center[3]>>,
                    <<center[1], center[2], center[3] + 1>>,
                    <<center[1], center[2], center[3] - 1>>}
       IN  /\ \A m \in got : Norm2(Diff(m)) <= r * r
           /\ \A c \in Window : Norm2(Diff(c)) <= r * r => c \in got
           /\ r = 0 => got = {center}
           /\ r = 1 => (got = {center} \cup Near /\ Cardinality(got) = 7)

\* a sphere of radius 1 enumerated around a center off the origin
SphereMembersWitness ==
    /\ strat = [kind |-> "RuggedSphere", size |-> 1]
    /\ center # <<0, 0, 0>>
    /\ Len(members) = 7

\* C10: index and index_mut succeed exactly when the flat index
\* y*QUAD_LEN + x + z*SIDE_LEN is < N, and then the slot at that index is the
\* one read or written; they panic exactly when it is >= N.
BoundIsArrayLength ==
    last.op \in {"index", "index_mut"}
    => LET f == last.coord[1] * side * side + last.coord[2] + last.coord[3] * side
       IN  /\ pc = "live" <=> f < n
           /\ pc = "panicked" <=> f >= n
           /\ f < n => data[f] = last.val

\* a read with a component >= SIDE_LEN that succeeded on a chunk with N = CUBE_LEN
BoundIsArrayLengthWitness ==
    /\ last.op = "index"
    /\ pc = "live"
    /\ n = side * side * side
    /\ ~Valid(last.coord, side)

====
